---- MODULE Spec2Model ----
(***************************************************************************)
(* Claimable-capital cache of the front end: the React provider            *)
(* RedeemableCapitalCacheProvider (claimable-capital-cache.provider.tsx)   *)
(* and the batch fetch coordinator of the hook useAssetOperations          *)
(* (fetchClaimableCapital, retryFailedFetches).                            *)
(*                                                                         *)
(* The provider keeps the cache in React state (cache, loadingBonds) and   *)
(* mirrors it in a ref (cacheRef) that the reads use.  Every write goes    *)
(* through setCache(updater) / setLoadingBonds(updater): React queues the  *)
(* updater and runs it at the next render, except that an updater          *)
(* dispatched while the component has no pending update may be run at      *)
(* once (eager state).  The updaters assign cacheRef and read Date.now(),  *)
(* so the model keeps, inside each step, the queue of updates and the      *)
(* value of cacheRef that the code of the step reads.                      *)
(*                                                                         *)
(* A step of the model is one task of the event loop: an event handler or  *)
(* the reactions to a settled promise, followed by the render that React   *)
(* schedules for the updates the task dispatched.  The render is taken to  *)
(* run before the next task and within the same clock instant.             *)
(***************************************************************************)
EXTENDS Integers, Sequences, FiniteSets, TLC

\* ---------------------------------------------------------------- bounds
Keys     == {"A", "B"}
Values   == {"10"}
MaxTime  == 2
MaxSlots == 2
MaxWaiters == 1
MaxSweepTime == 4
MaxTimerId == 3
MaxRequests == 3

\* provider options (RedeemableCapitalCacheOptions), scaled down: ttl in clock ticks,
\* and the values of maxSize a provider is constructed with
ttl      == 2
MaxSizes == {1, 2}

NoKey    == "none"
NoError  == "undefined"
ItemErrors == {"not found"}
FailedToLoad == "Failed to load"
NoCall   == 0
\* the invocations that can be pending: MaxSlots with a batched call of their own,
\* MaxWaiters that only await the calls of others
FetchSlots == 1..MaxSlots
WaitSlots  == (MaxSlots + 1)..(MaxSlots + MaxWaiters)
Slots      == FetchSlots \cup WaitSlots

VARIABLES
  http,             \* the HTTP client: cookies, isRefreshing, refreshSubscribers, requests
  primary,          \* the pending invocation of handlePrimaryOperation
  scope,            \* the mounted provider and the intervals of its cleanup effect
  maxSize,          \* the option maxSize, fixed at construction
  now,              \* Date.now()
  cache,            \* React state `cache`: Map in insertion order
  cacheRef,         \* cacheRef.current
  loadingBonds,     \* React state `loadingBonds`
  inflightRequests, \* inflightRequests.current: key -> operation promise
  calls,            \* fetchClaimableCapital invocations, one per slot
  last              \* history: the invocation that returned in the last step

vars == <<http, primary, scope, maxSize, now, cache, cacheRef, loadingBonds, inflightRequests, calls, last>>

\* ------------------------------------------------------- Map<string, entry>
Entry(k, v, t, e) == [key |-> k, value |-> v, timestamp |-> t, error |-> e]

MapKeys(m) == {m[i].key : i \in 1..Len(m)}

MapHas(m, k) == k \in MapKeys(m)

MapIndex(m, k) == CHOOSE i \in 1..Len(m) : m[i].key = k

MapGet(m, k) == m[MapIndex(m, k)]

\* Map.prototype.set: an existing key keeps its position, a new key goes last
MapSet(m, e) ==
  IF MapHas(m, e.key)
    THEN [i \in 1..Len(m) |-> IF m[i].key = e.key THEN e ELSE m[i]]
    ELSE Append(m, e)

MapDelete(m, k) == SelectSeq(m, LAMBDA x : x.key # k)

Range(q) == {q[i] : i \in 1..Len(q)}

\* ------------------------------------------------------------- provider
\* isEntryValid
isEntryValidInclusive(entry, t) == t - entry.timestamp <= ttl

isEntryValid(entry, t) == t - entry.timestamp < ttl

\* getCachedValue: reads cacheRef.current, returns null for a missing or expired entry
Null == [key |-> NoKey, value |-> "null", timestamp |-> 0, error |-> NoError]

getCachedValueIn(ref, bondId) ==
  IF MapHas(ref, bondId) /\ isEntryValid(MapGet(ref, bondId), now)
    THEN MapGet(ref, bondId)
    ELSE Null

getCachedValue(bondId) == getCachedValueIn(cacheRef, bondId)

\* hasCachedValue
hasCachedValueStored(ref, bondId) == MapHas(ref, bondId)

hasCachedValueIn(ref, bondId) == getCachedValueIn(ref, bondId) # Null

hasCachedValue(bondId) == hasCachedValueIn(cacheRef, bondId)

\* isLoading reads the loadingBonds of the last render
isLoading(bondId) == bondId \in loadingBonds

\* hasInflightRequest / getInflightRequest
hasInflightRequest(bondId) == inflightRequests[bondId] # NoCall

getInflightRequest(bondId) == inflightRequests[bondId]

\* the eviction scan of setCachedValue: newCache.forEach from entry i on
RECURSIVE ScanOldestLastTie(_, _, _, _)
ScanOldestLastTie(m, i, oldestKey, oldestTimestamp) ==
  IF i > Len(m) THEN oldestKey
  ELSE IF m[i].timestamp <= oldestTimestamp
    THEN ScanOldestLastTie(m, i + 1, m[i].key, m[i].timestamp)
    ELSE ScanOldestLastTie(m, i + 1, oldestKey, oldestTimestamp)

RECURSIVE ScanOldest(_, _, _, _)
ScanOldest(m, i, oldestKey, oldestTimestamp) ==
  IF i > Len(m) THEN oldestKey
  ELSE IF m[i].timestamp < oldestTimestamp
    THEN ScanOldest(m, i + 1, m[i].key, m[i].timestamp)
    ELSE ScanOldest(m, i + 1, oldestKey, oldestTimestamp)

\* the updater that setCachedValue passes to setCache
SetUpdater(prevCache, bondId, value, error, t) ==
  LET oldestKey == ScanOldest(prevCache, 1, NoKey, t)
      newCache  == IF Len(prevCache) >= maxSize /\ oldestKey # NoKey
                     THEN MapDelete(prevCache, oldestKey)
                     ELSE prevCache
  IN MapSet(newCache, Entry(bondId, value, t, error))

\* the updater of clearCacheEntry
ClearEntryUpdaterAll(prevCache, bondId) == <<>>

ClearEntryUpdater(prevCache, bondId) == MapDelete(prevCache, bondId)

\* the updater of cleanExpiredEntries
CleanUpdater(prevCache, t) == SelectSeq(prevCache, LAMBDA entry : isEntryValid(entry, t))

\* the updater of the cleanup interval; it returns prevCache itself when nothing expired
IntervalKeepInclusive(entry, t) == t - entry.timestamp <= ttl

IntervalKeep(entry, t) == t - entry.timestamp < ttl

IntervalUpdater(prevCache, t) == SelectSeq(prevCache, LAMBDA entry : IntervalKeep(entry, t))

\* ------------------------------------------------------ React update queue
\* One pending setCache update.  op: "set" | "clearEntry" | "clean" | "interval" | "replace".
Update(op, k, v, e) ==
  [op |-> op, key |-> k, value |-> v, error |-> e, eager |-> FALSE, eagerState |-> <<>>]

\* Running one update on `state`: the next state and the value left in cacheRef.current.
\* Every function updater assigns cacheRef.current; the interval's does so only when an
\* entry expired; setCache(new Map()) runs no code of the provider.
RunUpdate(state, ref, u, t) ==
  CASE u.op = "set" ->
         LET n == SetUpdater(state, u.key, u.value, u.error, t) IN [state |-> n, ref |-> n]
    [] u.op = "clearEntry" ->
         LET n == ClearEntryUpdater(state, u.key) IN [state |-> n, ref |-> n]
    [] u.op = "clean" ->
         LET n == CleanUpdater(state, t) IN [state |-> n, ref |-> n]
    [] u.op = "interval" ->
         LET n == IntervalUpdater(state, t)
         IN IF n # state THEN [state |-> n, ref |-> n] ELSE [state |-> state, ref |-> ref]
    [] u.op = "replace" -> [state |-> <<>>, ref |-> ref]

\* One call the task made on the provider or on the service, in the order of the calls.
\* ev: "loading" (setLoadingState(key, flag)), "fetchFn" (the batched call, with args),
\* "inflight" (setInflightRequest(key, operationPromise)), "finally" (the reaction of
\* setInflightRequest for key ran; flag: the promise it derived rejected unhandled).
Event(ev, k, flag, args) == [ev |-> ev, key |-> k, flag |-> flag, args |-> args]

\* The store as the code of one task sees and changes it: cacheRef.current, the queued
\* setCache updates, loadingBonds with the queued updates applied, whether a
\* setLoadingBonds update is queued, and the calls made so far.
Store == [ref |-> cacheRef, cq |-> <<>>, ln |-> loadingBonds, ld |-> FALSE, log |-> <<>>]

Logged(S, e) == [S EXCEPT !.log = Append(@, e)]

\* setCache(update).  With no update pending React may compute the next state at once
\* (eager): the updater runs now, and a result identical to the current state drops the
\* update.  Otherwise the update waits for the render.
DispatchCache(S, u, eager, t) ==
  IF eager /\ S.cq = <<>> /\ ~S.ld
    THEN LET r == RunUpdate(cache, S.ref, u, t)
         IN IF u.op = "interval" /\ r.state = cache
              THEN S
              ELSE [S EXCEPT !.ref = r.ref,
                             !.cq = <<[u EXCEPT !.eager = TRUE, !.eagerState = r.state]>>]
    ELSE [S EXCEPT !.cq = Append(@, u)]

\* setLoadingBonds(updater): the updaters only add or delete a key
DispatchLoading(S, bondId, flag) ==
  [S EXCEPT !.ln = IF flag THEN @ \cup {bondId} ELSE @ \ {bondId}, !.ld = TRUE]

\* setLoadingState(bondId, isLoading)
setLoadingState(S, bondId, flag) ==
  Logged(DispatchLoading(S, bondId, flag), Event("loading", bondId, flag, <<>>))

\* The render: React applies the queued updates in order, at the time of the render.
RECURSIVE ApplyQueue(_, _, _, _)
ApplyQueue(state, ref, q, t) ==
  IF q = <<>> THEN [state |-> state, ref |-> ref]
  ELSE LET u == Head(q)
           r == IF u.eager THEN [state |-> u.eagerState, ref |-> ref]
                           ELSE RunUpdate(state, ref, u, t)
       IN ApplyQueue(r.state, r.ref, Tail(q), t)

\* every update but an interval run that kept everything yields a new Map object
RECURSIVE Publishes(_, _, _)
Publishes(state, q, t) ==
  IF q = <<>> THEN FALSE
  ELSE LET u == Head(q)
           r == IF u.eager THEN [state |-> u.eagerState, ref |-> <<>>]
                           ELSE RunUpdate(state, <<>>, u, t)
       IN \/ u.op # "interval"
          \/ r.state # state
          \/ Publishes(r.state, Tail(q), t)

\* ------------------------------------------------- provider life cycle
\* The provider after its first render and effects: the cleanup effect has called
\* setInterval once.  timers: the intervals that are active; current: the interval that
\* the cleanup function of the last run of the effect clears; nextId: the id the next
\* setInterval returns.
Mounted == [mounted |-> TRUE, timers |-> {1}, current |-> 1, nextId |-> 2]

\* the cleanup function of the effect: clearInterval(cleanupInterval)
EffectCleanupLeak(sc) == sc

EffectCleanup(sc) == [sc EXCEPT !.timers = @ \ {sc.current}]

\* the body of the effect: setInterval(...)
EffectSetup(sc) ==
  [sc EXCEPT !.timers = @ \cup {sc.nextId}, !.current = sc.nextId, !.nextId = @ + 1]

\* ------------------------------------------------------- provider actions
\* What the last step did (history).  op: the operation; removed: the keys it removed
\* from the cache; deduped: for an invocation that issued a batched call, the assets it
\* left out because they were in flight; for an invocation that returned: how its
\* batched call settled ("none": it issued no call), how the promise of the invocation
\* settled, and the keys of the batched call whose loading flag had been cleared while
\* the call was pending; read: what a getCachedValue made by the task itself, after its
\* writes and before it returned, gave.
NoHistory ==
  [op |-> "none", keys |-> {}, removed |-> {}, deduped |-> {}, outcome |-> "none",
   ret |-> "none", cleared |-> {}, awaited |-> {}, log |-> <<>>, read |-> Null]

Removed == MapKeys(cache) \ MapKeys(cache')

Did(op) == [NoHistory EXCEPT !.op = op, !.removed = Removed]

Returned(call, outcome, ret) ==
  [NoHistory EXCEPT !.op = "returned", !.keys = Range(call.need), !.removed = Removed,
                    !.outcome = outcome, !.ret = ret,
                    !.cleared = Range(call.need) \ loadingBonds, !.awaited = call.awaited]

\* The render that ends a task which left the store as S: React applies the queued
\* updates in order, then the effect on [cache] copies a new cache object into
\* cacheRef.current.  With nothing queued there is no render.
Render(S) ==
  LET r == ApplyQueue(cache, S.ref, S.cq, now)
  IN /\ cache' = r.state
     /\ cacheRef' = IF Publishes(cache, S.cq, now) THEN r.state ELSE r.ref
     /\ loadingBonds' = S.ln

\* setCachedValue(bondId, value, error), called by a consumer of the context
SetCachedValue(bondId, value, error, eager) ==
  /\ Render(DispatchCache(Store, Update("set", bondId, value, error), eager, now))
  /\ last' = Did("set")
  /\ UNCHANGED <<http, primary, scope, maxSize, now, inflightRequests, calls>>

\* clearCacheEntry(bondId) on the store S
ClearEntry(S, bondId, eager, t) ==
  DispatchLoading(DispatchCache(S, Update("clearEntry", bondId, "", NoError), eager, t), bondId, FALSE)

ClearCacheEntry(bondId, eager) ==
  /\ Render(ClearEntry(Store, bondId, eager, now))
  /\ last' = [Did("clear") EXCEPT !.keys = {bondId}]
  /\ UNCHANGED <<http, primary, scope, maxSize, now, inflightRequests, calls>>

\* clearCache() on the store S
ClearStoreReplaceFirst(S) ==
  [S EXCEPT !.ref = <<>>, !.cq = <<Update("replace", NoKey, "", NoError)>> \o @,
            !.ln = {}, !.ld = TRUE]

ClearStore(S) ==
  [S EXCEPT !.ref = <<>>, !.cq = Append(@, Update("replace", NoKey, "", NoError)),
            !.ln = {}, !.ld = TRUE]

ClearCache ==
  /\ Render(ClearStore(Store))
  /\ inflightRequests' = [k \in Keys |-> NoCall]
  /\ last' = Did("clearAll")
  /\ UNCHANGED <<http, primary, scope, maxSize, now, calls>>

\* a task of a consumer that writes an entry and then resets the cache
SetThenClearCache(bondId, value, error, eager) ==
  /\ Render(ClearStore(DispatchCache(Store, Update("set", bondId, value, error), eager, now)))
  /\ inflightRequests' = [k \in Keys |-> NoCall]
  /\ last' = [Did("setThenClearAll") EXCEPT !.keys = {bondId}]
  /\ UNCHANGED <<http, primary, scope, maxSize, now, calls>>

\* a task of a consumer that writes an entry and reads it back before it returns
SetThenGet(bondId, value, error, eager) ==
  LET S == DispatchCache(Store, Update("set", bondId, value, error), eager, now)
  IN /\ Render(S)
     /\ last' = [Did("setThenGet") EXCEPT !.keys = {bondId},
                                          !.read = getCachedValueIn(S.ref, bondId)]
     /\ UNCHANGED <<http, primary, scope, maxSize, now, inflightRequests, calls>>

\* a task of a consumer that clears an entry and reads the key before it returns
ClearEntryThenGet(bondId, eager) ==
  LET S == ClearEntry(Store, bondId, eager, now)
  IN /\ Render(S)
     /\ last' = [Did("clearThenGet") EXCEPT !.keys = {bondId},
                                            !.read = getCachedValueIn(S.ref, bondId)]
     /\ UNCHANGED <<http, primary, scope, maxSize, now, inflightRequests, calls>>

\* getCacheStats: cache.size, maxSize, loadingBonds.size, inflightRequests.current.size
getCacheStats ==
  [size |-> Len(cache), maxSize |-> maxSize, loadingCount |-> Cardinality(loadingBonds),
   inflightCount |-> Cardinality({k \in Keys : inflightRequests[k] # NoCall})]

\* The store after the reads getCachedValue, hasCachedValue, isLoading,
\* getInflightRequest, hasInflightRequest and getCacheStats for bondId: none of them
\* dispatches an update or assigns a ref.
ReadsOnDeleting(S, bondId) ==
  IF MapHas(S.ref, bondId) /\ ~isEntryValid(MapGet(S.ref, bondId), now)
    THEN DispatchCache(S, Update("clearEntry", bondId, "", NoError), FALSE, now)
    ELSE S

ReadsOn(S, bondId) == S

\* a task of a consumer that only reads
Reads(bondId) ==
  /\ Render(ReadsOn(Store, bondId))
  /\ last' = [Did("read") EXCEPT !.keys = {bondId}, !.read = getCachedValue(bondId)]
  /\ UNCHANGED <<http, primary, scope, maxSize, now, inflightRequests, calls>>

\* cleanExpiredEntries()
CleanExpiredEntries(eager) ==
  /\ Render(DispatchCache(Store, Update("clean", NoKey, "", NoError), eager, now))
  /\ last' = Did("sweep")
  /\ UNCHANGED <<http, primary, scope, maxSize, now, inflightRequests, calls>>

\* the setInterval callback of the cleanup effect
CleanupInterval(eager) ==
  /\ scope.timers # {}
  /\ Render(DispatchCache(Store, Update("interval", NoKey, "", NoError), eager, now))
  /\ last' = Did("sweep")
  /\ UNCHANGED <<http, primary, scope, maxSize, now, inflightRequests, calls>>

\* The timer of the cleanup effect: setInterval(callback, ttl / 2), started when the
\* provider mounts (at time 0); the callback is due at every multiple of the period.
IntervalPeriodWhole == ttl

IntervalPeriod == ttl \div 2

IntervalDue(t) == t % IntervalPeriod = 0

\* The clock advances by one tick; if the timer is due at the new instant its callback
\* runs then, before any other task of that instant, and React renders.
TimerTick ==
  LET t == now + 1
      q == IF IntervalDue(t) /\ scope.timers # {}
             THEN <<Update("interval", NoKey, "", NoError)>> ELSE <<>>
      r == ApplyQueue(cache, cacheRef, q, t)
  IN /\ now < MaxSweepTime
     /\ now' = t
     /\ cache' = r.state
     /\ cacheRef' = IF Publishes(cache, q, t) THEN r.state ELSE r.ref
     /\ last' = Did(IF IntervalDue(t) THEN "timer" ELSE "none")
     /\ UNCHANGED <<http, primary, scope, maxSize, loadingBonds, inflightRequests, calls>>

\* The context: createContext(null) is what a component outside the provider gets from
\* useContext, the provider's contextValue what a component below it gets.
NoContext == "null"

ContextValue == "contextValue"

useContext(inside) == IF inside THEN ContextValue ELSE NoContext

\* useRedeemableCapitalCache: what it returns, or "throws"
useRedeemableCapitalCacheLenient(context) == context

useRedeemableCapitalCache(context) == IF context = NoContext THEN "throws" ELSE context

\* a component, below the provider or not, calls the hook
UseRedeemableCapitalCache(inside) ==
  /\ last' = [NoHistory EXCEPT !.op = "hook",
                               !.outcome = IF inside THEN "inside" ELSE "outside",
                               !.ret = useRedeemableCapitalCache(useContext(inside))]
  /\ UNCHANGED <<http, primary, scope, maxSize, now, cache, cacheRef, loadingBonds, inflightRequests, calls>>

\* The provider is rendered with another ttl: the dependency [ttl] of the cleanup effect
\* changed, so React runs the cleanup function of the effect and then the effect again.
\* (The value of ttl itself stays the one of the model.)
ChangeTtl ==
  /\ scope.mounted
  /\ scope.nextId <= MaxTimerId
  /\ scope' = EffectSetup(EffectCleanup(scope))
  /\ last' = NoHistory
  /\ UNCHANGED <<http, primary, maxSize, now, cache, cacheRef, loadingBonds, inflightRequests, calls>>

\* The provider is unmounted: React runs the cleanup function of the effect.
Unmount ==
  /\ scope.mounted
  /\ scope' = [EffectCleanup(scope) EXCEPT !.mounted = FALSE]
  /\ last' = NoHistory
  /\ UNCHANGED <<http, primary, maxSize, now, cache, cacheRef, loadingBonds, inflightRequests, calls>>

\* the clock
Tick ==
  /\ now < MaxTime
  /\ now' = now + 1
  /\ last' = NoHistory
  /\ UNCHANGED <<http, primary, scope, maxSize, cache, cacheRef, loadingBonds, inflightRequests, calls>>

\* ---------------------------------------------------------- coordinator
\* the rows of the list view
Data == <<"A", "B">>

\* the asset lists a caller passes: some of the rows, in the order of the list
Requests ==
  {q \in UNION {[1..n -> Keys] : n \in 1..Len(Data)} :
     \A i, j \in 1..Len(q) : i < j =>
        MapIndex([r \in 1..Len(Data) |-> [key |-> Data[r]]], q[i])
          < MapIndex([r \in 1..Len(Data) |-> [key |-> Data[r]]], q[j])}

\* One invocation: pc; the assetIds of its batched call; the operation promises it
\* still awaits, and how those it awaited have settled.
IdleCall == [pc |-> "idle", need |-> <<>>, waitFor |-> {}, awaited |-> {}]

\* try { await operationPromise ... } catch { ... }: the catch block writes the failure
\* entries and throws nothing, so the async function completes normally either way
AfterTryRethrown(outcome) == IF outcome = "rejected" THEN "rejected" ELSE "resolved"

AfterTry(outcome) == "resolved"

\* await Promise.allSettled(...): fulfilled whatever the outcomes of the awaited promises
AfterAllSettled(outcomes) == "resolved"

Free(c) == calls[c].pc = "idle"

\* BondService.getClaimablePrincipalForBonds: one result per bond id, in order; a bond
\* whose request failed is reported with claimableAmount '0' and the error message
FetchResult(bondId, o) ==
  IF o \in ItemErrors
    THEN [bondId |-> bondId, claimableAmount |-> "0", error |-> o]
    ELSE [bondId |-> bondId, claimableAmount |-> o, error |-> NoError]

getClaimablePrincipalForBonds(bondIds, o) ==
  [i \in 1..Len(bondIds) |-> FetchResult(bondIds[i], o[i])]

\* assetIds.forEach(setLoadingState(assetId, flag))
RECURSIVE SetLoadingAll(_, _, _)
SetLoadingAll(S, ids, flag) ==
  IF ids = <<>> THEN S
  ELSE SetLoadingAll(setLoadingState(S, Head(ids), flag), Tail(ids), flag)

\* results.forEach(setCachedValue(bondId, claimableAmount, error))
RECURSIVE CacheResultsAllOrNothing(_, _, _, _)
CacheResultsAllOrNothing(S, results, eager, t) ==
  IF results = <<>> THEN S
  ELSE LET failed == \E i \in 1..Len(results) : results[i].error # NoError
           r == Head(results)
       IN CacheResultsAllOrNothing(
            DispatchCache(S, Update("set", r.bondId,
                                    IF failed THEN "0" ELSE r.claimableAmount,
                                    IF failed THEN FailedToLoad ELSE r.error), eager, t),
            Tail(results), eager, t)

RECURSIVE CacheResultsIfStillLoading(_, _, _, _)
CacheResultsIfStillLoading(S, results, eager, t) ==
  IF results = <<>> THEN S
  ELSE CacheResultsIfStillLoading(
         IF Head(results).bondId \in S.ln
           THEN DispatchCache(S, Update("set", Head(results).bondId,
                                        Head(results).claimableAmount, Head(results).error),
                              eager, t)
           ELSE S,
         Tail(results), eager, t)

RECURSIVE CacheResultsIfAbsent(_, _, _, _)
CacheResultsIfAbsent(S, results, eager, t) ==
  IF results = <<>> THEN S
  ELSE CacheResultsIfAbsent(
         IF hasCachedValueIn(S.ref, Head(results).bondId)
           THEN S
           ELSE DispatchCache(S, Update("set", Head(results).bondId,
                                        Head(results).claimableAmount, Head(results).error),
                              eager, t),
         Tail(results), eager, t)

CacheResultsFirst(S, results, eager, t) ==
  IF results = <<>> THEN S
  ELSE DispatchCache(S, Update("set", Head(results).bondId, Head(results).claimableAmount,
                               Head(results).error), eager, t)

RECURSIVE CacheResults(_, _, _, _)
CacheResults(S, results, eager, t) ==
  IF results = <<>> THEN S
  ELSE CacheResults(
         DispatchCache(S, Update("set", Head(results).bondId, Head(results).claimableAmount,
                                 Head(results).error), eager, t),
         Tail(results), eager, t)

\* the catch branch: assetIds.forEach(setCachedValue(assetId, '0', 'Failed to load'))
RECURSIVE CacheFailuresNoError(_, _, _, _)
CacheFailuresNoError(S, ids, eager, t) ==
  IF ids = <<>> THEN S
  ELSE CacheFailuresNoError(DispatchCache(S, Update("set", Head(ids), "0", NoError), eager, t),
                            Tail(ids), eager, t)

CacheFailuresNothing(S, ids, eager, t) == S

RECURSIVE CacheFailures(_, _, _, _)
CacheFailures(S, ids, eager, t) ==
  IF ids = <<>> THEN S
  ELSE CacheFailures(DispatchCache(S, Update("set", Head(ids), "0", FailedToLoad), eager, t),
                     Tail(ids), eager, t)

\* assetsNeedingFetch of fetchClaimableCapital, on the store S and the inflight map infl
AssetsNotCached(S, infl, assets) ==
  SelectSeq(assets, LAMBDA id : ~hasCachedValueIn(S.ref, id))

AssetsNeedingFetch(S, infl, assets) ==
  SelectSeq(assets, LAMBDA id : ~hasCachedValueIn(S.ref, id) /\ infl[id] = NoCall)

WaitingAssetsNone(infl, assets) == {}

WaitingAssets(infl, assets) == {id \in Range(assets) : infl[id] # NoCall}

\* operationPromise: the async function calls the service once, with all the assetIds
RECURSIVE IssueFetchPerKey(_, _)
IssueFetchPerKey(S, assetIds) ==
  IF assetIds = <<>> THEN S
  ELSE IssueFetchPerKey(Logged(S, Event("fetchFn", NoKey, TRUE, <<Head(assetIds)>>)),
                        Tail(assetIds))

IssueFetch(S, assetIds) == Logged(S, Event("fetchFn", NoKey, TRUE, assetIds))

\* setInflightRequest(bondId, operationPromise) for the operation of invocation c, on
\* the pair R of the store and the inflight map
setInflightRequest(R, bondId, c) ==
  [S |-> Logged(R.S, Event("inflight", bondId, TRUE, <<>>)),
   infl |-> [R.infl EXCEPT ![bondId] = c]]

\* assetIds.forEach(setInflightRequest(assetId, operationPromise))
SetInflightFirst(R, ids, c) == setInflightRequest(R, Head(ids), c)

RECURSIVE SetInflightAll(_, _, _)
SetInflightAll(R, ids, c) ==
  IF ids = <<>> THEN R
  ELSE SetInflightAll(setInflightRequest(R, Head(ids), c), Tail(ids), c)

\* fetchClaimableCapital from the loading flags to the registration of the operation
BeforeAwaitRegisterFirst(S, infl, c, assetIds) ==
  LET R == SetInflightAll([S |-> IssueFetch(S, assetIds), infl |-> infl], assetIds, c)
  IN [S |-> SetLoadingAll(R.S, assetIds, TRUE), infl |-> R.infl]

BeforeAwait(S, infl, c, assetIds) ==
  SetInflightAll([S |-> IssueFetch(SetLoadingAll(S, assetIds, TRUE), assetIds), infl |-> infl],
                 assetIds, c)

\* fetchClaimableCapital(assets) up to its first await, as invocation c:
\* the store, the inflight map and the invocation it leaves
FetchStart(S, infl, c, assets) ==
  LET assetIds == AssetsNeedingFetch(S, infl, assets)
      waiting  == WaitingAssets(infl, assets)
  IN IF assetIds = <<>>
       THEN [S |-> S, infl |-> infl,
             call |-> IF waiting # {}
                        THEN [IdleCall EXCEPT !.pc = "waiting",
                                              !.waitFor = {infl[id] : id \in waiting}]
                        ELSE IdleCall]
       ELSE [S |-> BeforeAwait(S, infl, c, assetIds).S,
             infl |-> BeforeAwait(S, infl, c, assetIds).infl,
             call |-> [IdleCall EXCEPT !.pc = "fetching", !.need = assetIds]]

\* the invocation takes the lowest free slot of its kind
NextSlot(c, pc) ==
  LET kind == IF pc = "waiting" THEN WaitSlots ELSE FetchSlots
  IN c \in kind /\ Free(c) /\ \A d \in kind : d < c => ~Free(d)

FetchClaimableCapital(c, assets) ==
  /\ LET f == FetchStart(Store, inflightRequests, c, assets)
     IN /\ NextSlot(c, f.call.pc)
        /\ Render(f.S)
        /\ inflightRequests' = f.infl
        /\ calls' = [calls EXCEPT ![c] = f.call]
        /\ last' = CASE f.call.pc = "idle" ->
                          [Returned(IdleCall, "none", "resolved") EXCEPT !.log = f.S.log]
                     [] f.call.pc = "fetching" ->
                          [Did("fetch") EXCEPT !.deduped = WaitingAssets(inflightRequests, assets),
                                               !.log = f.S.log]
                     [] OTHER -> [Did("wait") EXCEPT !.log = f.S.log]
  /\ UNCHANGED <<http, primary, scope, maxSize, now>>

\* promise.finally(onFinally) returns a promise that settles as `promise` did (onFinally
\* returns normally)
FinallyDerived(outcome) == outcome

\* The reaction that setInflightRequest attached for bondId runs: the key leaves the
\* inflight map.  The promise that finally() returned is dropped, so nothing handles it
\* when it rejects.
inflightFinallyOnSuccess(R, bondId, outcome) ==
  [S |-> Logged(R.S, Event("finally", bondId, FinallyDerived(outcome) = "rejected", <<>>)),
   infl |-> IF outcome = "fulfilled" THEN [R.infl EXCEPT ![bondId] = NoCall] ELSE R.infl]

inflightFinally(R, bondId, outcome) ==
  [S |-> Logged(R.S, Event("finally", bondId, FinallyDerived(outcome) = "rejected", <<>>)),
   infl |-> [R.infl EXCEPT ![bondId] = NoCall]]

RECURSIVE FinallyAll(_, _, _)
FinallyAll(R, ids, outcome) ==
  IF ids = <<>> THEN R
  ELSE FinallyAll(inflightFinally(R, Head(ids), outcome), Tail(ids), outcome)

\* The operation promise of invocation c settles.  Its reactions run in the order they
\* were attached: the finally of setInflightRequest for each key, then the rest of
\* fetchClaimableCapital (cache the results or the failures, clear the loading flags).
Settled(c, outcome, results, eager) ==
  LET assetIds == calls[c].need
      F  == FinallyAll([S |-> Store, infl |-> inflightRequests], assetIds, outcome)
      S1 == IF outcome = "fulfilled"
              THEN CacheResults(F.S, results, eager, now)
              ELSE CacheFailures(F.S, assetIds, eager, now)
      S2 == SetLoadingAll(S1, assetIds, FALSE)
  IN /\ Render(S2)
     /\ inflightRequests' = F.infl
     /\ calls' = [d \in Slots |->
                    IF d = c THEN IdleCall
                    ELSE IF c \in calls[d].waitFor
                      THEN [calls[d] EXCEPT !.waitFor = @ \ {c}, !.awaited = @ \cup {outcome}]
                      ELSE calls[d]]
     /\ last' = [Returned(calls[c], outcome, AfterTry(outcome)) EXCEPT !.log = S2.log]
     /\ UNCHANGED <<http, primary, scope, maxSize, now>>

Outcomes == Values \cup ItemErrors

\* the batched call resolves
Resolve(c, eager) ==
  /\ calls[c].pc = "fetching"
  /\ \E o \in [1..Len(calls[c].need) -> Outcomes] :
       Settled(c, "fulfilled", getClaimablePrincipalForBonds(calls[c].need, o), eager)

\* The lists the continuation of fetchClaimableCapital may be handed: fetchResult is
\* typed `any`, and results.forEach takes whatever list the operation fulfilled with,
\* be it shorter than assetIds or naming other bonds.
ResultLists ==
  {<<>>} \cup
  {getClaimablePrincipalForBonds(ids, o) :
     ids \in {q \in UNION {[1..n -> Keys] : n \in 1..2} : \A i, j \in 1..Len(q) : i # j => q[i] # q[j]},
     o \in [1..2 -> Outcomes]}

\* the batched call resolves with some list of results
ResolveWith(c, eager) ==
  /\ calls[c].pc = "fetching"
  /\ \E results \in ResultLists : Settled(c, "fulfilled", results, eager)

\* the batched call rejects
Reject(c, eager) ==
  /\ calls[c].pc = "fetching"
  /\ Settled(c, "rejected", <<>>, eager)

\* an invocation that only awaited pending requests: Promise.allSettled has settled
WaiterReturns(c) ==
  /\ calls[c].pc = "waiting"
  /\ calls[c].waitFor = {}
  /\ UNCHANGED <<http, primary, scope, maxSize, now, cache, cacheRef, loadingBonds, inflightRequests>>
  /\ calls' = [calls EXCEPT ![c] = IdleCall]
  /\ last' = Returned(calls[c], "none", AfterAllSettled(calls[c].awaited))

\* The operation promise of invocation c settles while invocation w awaits it alone, and
\* the caller of w calls fetchClaimableCapital(assets) again as soon as w has returned.
\* The reactions of the promise run as microtasks in the order they were attached (the
\* finally of each key, the rest of invocation c, Promise.allSettled of w), and the
\* continuations of w and of its caller are microtasks too: all of them run before
\* React renders, so the new invocation reads the store as invocation c left it, with
\* the queued updates not yet applied.
SettledThenFetch(c, w, outcome, results, eager, assets) ==
  LET assetIds == calls[c].need
      F  == FinallyAll([S |-> Store, infl |-> inflightRequests], assetIds, outcome)
      S1 == IF outcome = "fulfilled"
              THEN CacheResults(F.S, results, eager, now)
              ELSE CacheFailures(F.S, assetIds, eager, now)
      S2 == SetLoadingAll(S1, assetIds, FALSE)
      returned == [d \in Slots |->
                     IF d \in {c, w} THEN IdleCall
                     ELSE IF c \in calls[d].waitFor
                       THEN [calls[d] EXCEPT !.waitFor = @ \ {c}, !.awaited = @ \cup {outcome}]
                       ELSE calls[d]]
      n  == IF AssetsNeedingFetch(S2, F.infl, assets) = <<>> THEN w
            ELSE CHOOSE d \in FetchSlots :
                   /\ returned[d].pc = "idle"
                   /\ \A e \in FetchSlots : e < d => returned[e].pc # "idle"
      f  == FetchStart(S2, F.infl, n, assets)
  IN /\ calls[c].pc = "fetching"
     /\ calls[w].pc = "waiting" /\ calls[w].waitFor = {c}
     /\ Render(f.S)
     /\ inflightRequests' = f.infl
     /\ calls' = [returned EXCEPT ![n] = f.call]
     /\ last' = [Returned(calls[c], outcome, AfterTry(outcome))
                   EXCEPT !.op = "returnedThenFetch", !.log = f.S.log]
     /\ UNCHANGED <<http, primary, scope, maxSize, now>>

\* the batched call resolves or rejects, and the caller of the waiter fetches again
ResolveThenFetch(c, w, eager, assets) ==
  /\ calls[c].pc = "fetching"
  /\ \E o \in [1..Len(calls[c].need) -> Outcomes] :
       SettledThenFetch(c, w, "fulfilled", getClaimablePrincipalForBonds(calls[c].need, o),
                        eager, assets)

RejectThenFetch(c, w, eager, assets) ==
  /\ calls[c].pc = "fetching"
  /\ SettledThenFetch(c, w, "rejected", <<>>, eager, assets)

\* assetIds.forEach(clearCacheEntry)
RECURSIVE ClearAll(_, _, _, _)
ClearAll(S, ids, eager, t) ==
  IF ids = <<>> THEN S
  ELSE ClearAll(ClearEntry(S, Head(ids), eager, t), Tail(ids), eager, t)

\* retryFailedFetches(assetIds, data)
RetryFailedFetches(c, assetIds, data, eager) ==
  /\ LET assetsToRetry == SelectSeq(data, LAMBDA id : id \in Range(assetIds))
         f == FetchStart(ClearAll(Store, assetIds, eager, now), inflightRequests, c, assetsToRetry)
     IN /\ NextSlot(c, f.call.pc)
        /\ Render(f.S)
        /\ inflightRequests' = f.infl
        /\ calls' = [calls EXCEPT ![c] = f.call]
        /\ last' = NoHistory
  /\ UNCHANGED <<http, primary, scope, maxSize, now>>

\* ------------------------------------------------- handlePrimaryOperation
\* the amounts a form passes: no amount, or a Decimal (zero or not)
Amounts == {"undefined", "0", "5"}

\* !amount: a Decimal is an object, so only a missing amount is falsy
Falsy(amount) == amount = "undefined"

\* onTransactionSuccess: not given, or a callback that returns
Callbacks == {"undefined", "given"}

\* The invocation of handlePrimaryOperation: pc; the asset; whether the hook was given
\* onTransactionSuccess.
IdlePrimary == [pc |-> "idle", assetId |-> NoKey, callback |-> "undefined"]

\* a call of setIsProcessing, of the handler, of clearCacheEntry or of the callback
Called(S, ev, k, flag) == Logged(S, Event(ev, k, flag, <<>>))

\* handlePrimaryOperation(amount, assetId, setIsProcessing) up to its await
HandlePrimaryOperation(amount, assetId, callback) ==
  /\ primary.pc = "idle"
  /\ IF Falsy(amount)
       THEN /\ primary' = primary
            /\ last' = [NoHistory EXCEPT !.op = "primary", !.keys = {assetId}, !.ret = "false"]
       ELSE /\ primary' = [pc |-> "awaiting", assetId |-> assetId, callback |-> callback]
            /\ last' = [NoHistory EXCEPT
                          !.op = "primary", !.keys = {assetId}, !.ret = "pending",
                          !.log = Called(Called(Store, "setIsProcessing", NoKey, TRUE),
                                         "handler", assetId, TRUE).log]
  /\ UNCHANGED <<http, scope, maxSize, now, cache, cacheRef, loadingBonds, inflightRequests, calls>>

\* the try block after the await, and the catch block: the store they leave
AfterHandlerAlways(S, outcome, assetId, callback, eager) ==
  LET S1 == Called(ClearEntry(S, assetId, eager, now), "clearCacheEntry", assetId, TRUE)
      S2 == IF callback = "given" THEN Called(S1, "onTransactionSuccess", NoKey, TRUE) ELSE S1
  IN Called(S2, "setIsProcessing", NoKey, FALSE)

AfterHandler(S, outcome, assetId, callback, eager) ==
  IF outcome = "fulfilled"
    THEN LET S1 == Called(ClearEntry(S, assetId, eager, now), "clearCacheEntry", assetId, TRUE)
             S2 == IF callback = "given"
                     THEN Called(S1, "onTransactionSuccess", NoKey, TRUE) ELSE S1
         IN Called(S2, "setIsProcessing", NoKey, FALSE)
    ELSE Called(S, "setIsProcessing", NoKey, FALSE)

\* the promise of config.primaryOperation.handler settles: the rest of handlePrimaryOperation
PrimarySettled(outcome, eager) ==
  LET S == AfterHandler(Store, outcome, primary.assetId, primary.callback, eager)
  IN /\ primary.pc = "awaiting"
     /\ Render(S)
     /\ primary' = IdlePrimary
     /\ last' = [Did("primaryReturned") EXCEPT
                   !.keys = {primary.assetId}, !.outcome = outcome,
                   !.ret = IF outcome = "fulfilled" THEN "true" ELSE "rejected",
                   !.log = S.log]
     /\ UNCHANGED <<http, scope, maxSize, now, inflightRequests, calls>>

\* ------------------------------------------------------ ApiService (axios)
\* the requests of the application, none of them to an /auth/ endpoint
ReqIds == 1..MaxRequests

unauthorizedCode == {401}

\* the statuses of an error response
ErrorStatuses == {401, 500}

\* One request: pc ("idle": not made; "sent": AxiosService(originalRequest) awaits the
\* response; "refreshing": its interceptor awaits AuthService.refreshToken; "queued": its
\* interceptor returned the promise that a refresh subscriber resolves; "fulfilled",
\* "rejected": the promise of the request has settled) and originalRequest._retry.
NewRequest == [pc |-> "idle", retry |-> FALSE]

\* the client of a signed-in user: both cookies set, no refresh in progress
SignedIn ==
  [token |-> TRUE, refreshToken |-> TRUE, isRefreshing |-> FALSE,
   refreshSubscribers |-> <<>>, reqs |-> [r \in ReqIds |-> NewRequest]]

\* handleUnauthorized: both cookies are removed
handleUnauthorized(h) == [h EXCEPT !.token = FALSE, !.refreshToken = FALSE]

\* subscribeTokenRefresh(cb), cb closing over the request r
subscribeTokenRefresh(h, r) == [h EXCEPT !.refreshSubscribers = Append(@, r)]

\* onRefreshed(token): every callback sets the header of its request and resolves the
\* promise of the request with AxiosService(originalRequest); the list is emptied
onRefreshed(h) ==
  [h EXCEPT !.reqs = [r \in ReqIds |->
                        IF r \in Range(h.refreshSubscribers) THEN [@[r] EXCEPT !.pc = "sent"]
                                                             ELSE @[r]],
            !.refreshSubscribers = <<>>]

\* the test `if (isRefreshing)` of the interceptor
WaitsForRefreshNever(h) == FALSE

WaitsForRefresh(h) == h.isRefreshing

\* the user signs in again after a logout: the sign-in flow sets both cookies
SignIn ==
  /\ ~http.refreshToken
  /\ http' = [http EXCEPT !.token = TRUE, !.refreshToken = TRUE]
  /\ last' = [NoHistory EXCEPT !.op = "signIn"]
  /\ UNCHANGED <<primary, scope, maxSize, now, cache, cacheRef, loadingBonds,
                 inflightRequests, calls>>

\* the application makes a request
SendRequest(r) ==
  /\ http.reqs[r].pc = "idle"
  /\ http' = [http EXCEPT !.reqs[r].pc = "sent"]
  /\ last' = [NoHistory EXCEPT !.op = "request"]
  /\ UNCHANGED <<primary, scope, maxSize, now, cache, cacheRef, loadingBonds,
                 inflightRequests, calls>>

\* a response with a 2xx status: the first handler of the response interceptor returns it
RespondOk(r) ==
  /\ http.reqs[r].pc = "sent"
  /\ http' = [http EXCEPT !.reqs[r].pc = "fulfilled"]
  /\ last' = [NoHistory EXCEPT !.op = "response", !.outcome = "fulfilled"]
  /\ UNCHANGED <<primary, scope, maxSize, now, cache, cacheRef, loadingBonds,
                 inflightRequests, calls>>

\* The error handler of the response interceptor for the request r, up to its first
\* await or its return.
OnResponseError(h, r, status) ==
  IF status \in unauthorizedCode
    THEN IF h.refreshToken /\ ~h.reqs[r].retry
           THEN IF WaitsForRefresh(h)
                  THEN [subscribeTokenRefresh(h, r) EXCEPT !.reqs[r].pc = "queued"]
                  ELSE [h EXCEPT !.reqs[r] = [pc |-> "refreshing", retry |-> TRUE],
                                 !.isRefreshing = TRUE]
           ELSE [handleUnauthorized(h) EXCEPT !.reqs[r].pc = "rejected"]
    ELSE [h EXCEPT !.reqs[r].pc = "rejected"]

\* a response with an error status arrives for the request r
RespondError(r, status) ==
  /\ http.reqs[r].pc = "sent"
  /\ http' = OnResponseError(http, r, status)
  /\ last' = [NoHistory EXCEPT !.op = "response", !.outcome = "rejected"]
  /\ UNCHANGED <<primary, scope, maxSize, now, cache, cacheRef, loadingBonds,
                 inflightRequests, calls>>

\* AuthService.refreshToken resolved: the cookies are set, the subscribers are called,
\* the request is sent again, and the finally block resets isRefreshing
RefreshResolved(h, r) ==
  LET saved == [h EXCEPT !.token = TRUE, !.refreshToken = TRUE]
  IN [onRefreshed(saved) EXCEPT !.reqs[r].pc = "sent", !.isRefreshing = FALSE]

\* AuthService.refreshToken rejected (the request to auth/refresh is to an /auth/
\* endpoint: its own 401 is rejected by the interceptor without a refresh): the catch
\* block logs out and rejects, the finally block resets isRefreshing
RefreshRejected(h, r) ==
  [handleUnauthorized(h) EXCEPT !.reqs[r].pc = "rejected", !.isRefreshing = FALSE]

RefreshSettles(r, outcome) ==
  /\ http.reqs[r].pc = "refreshing"
  /\ http' = IF outcome = "fulfilled" THEN RefreshResolved(http, r) ELSE RefreshRejected(http, r)
  /\ last' = [NoHistory EXCEPT !.op = "refresh", !.outcome = outcome]
  /\ UNCHANGED <<primary, scope, maxSize, now, cache, cacheRef, loadingBonds,
                 inflightRequests, calls>>

\* ------------------------------------------------------------ behaviours
Init ==
  /\ http = SignedIn
  /\ primary = IdlePrimary
  /\ scope = Mounted
  /\ maxSize \in MaxSizes
  /\ now = 0
  /\ cache = <<>>
  /\ cacheRef = <<>>
  /\ loadingBonds = {}
  /\ inflightRequests = [k \in Keys |-> NoCall]
  /\ calls = [c \in Slots |-> IdleCall]
  /\ last = NoHistory

\* React's choice between running the first updater of a task at once and queueing it
\* shows only in a task that reads the cache after its first update: retryFailedFetches.
\* For the other tasks the two choices give the same step, and one is taken.
\* An invocation that only awaits the calls of others reads the store and changes
\* nothing in it; here the invocations are those that issue a batched call or return at
\* once, and SpecCoordinator below adds the awaiting ones.
Next ==
  \/ \E c \in FetchSlots, assets \in Requests : FetchClaimableCapital(c, assets)
  \/ \E c \in FetchSlots : Resolve(c, FALSE)
  \/ \E c \in FetchSlots : Reject(c, FALSE)
  \/ \E c \in FetchSlots, assetIds \in Requests, eager \in BOOLEAN :
       RetryFailedFetches(c, assetIds, Data, eager)
  \/ \E k \in Keys : ClearCacheEntry(k, FALSE)
  \/ ClearCache
  \/ \E k \in Keys, v \in Values, eager \in BOOLEAN : SetThenClearCache(k, v, NoError, eager)
  \/ CleanExpiredEntries(FALSE)
  \/ CleanupInterval(FALSE)
  \/ Tick

Spec == Init /\ [][Next]_vars

\* The batched call of invocation c settles: the part of Resolve(c, _) and Reject(c, _)
\* that shows in `calls` (no other step takes a call from "fetching" to "idle").
Settles(c) == calls[c].pc = "fetching" /\ calls' = [calls EXCEPT ![c] = IdleCall]

\* every batched call that was issued settles at some time (the assumption on the service)
EveryCallSettles == \A c \in FetchSlots : WF_calls(Settles(c))

SpecLive == Init /\ [][Next]_vars /\ EveryCallSettles

\* the provider alone, written to directly through the context
NextStore ==
  \/ \E k \in Keys, v \in Values : SetCachedValue(k, v, NoError, FALSE)
  \/ \E k \in Keys, e \in ItemErrors : SetCachedValue(k, "0", e, FALSE)
  \/ \E k \in Keys : ClearCacheEntry(k, FALSE)
  \/ ClearCache
  \/ CleanExpiredEntries(FALSE)
  \/ CleanupInterval(FALSE)
  \/ \E inside \in BOOLEAN : UseRedeemableCapitalCache(inside)
  \/ \E k \in Keys, v \in Values, eager \in BOOLEAN : SetThenGet(k, v, NoError, eager)
  \/ \E k \in Keys, eager \in BOOLEAN : ClearEntryThenGet(k, eager)
  \/ Tick

SpecStore == Init /\ [][NextStore]_vars

\* the coordinator and the clock, with consumers that read
NextReads ==
  \/ \E c \in FetchSlots, assets \in Requests : FetchClaimableCapital(c, assets)
  \/ \E c \in FetchSlots : Resolve(c, FALSE)
  \/ \E c \in FetchSlots : Reject(c, FALSE)
  \/ \E k \in Keys : ClearCacheEntry(k, FALSE)
  \/ ClearCache
  \/ \E k \in Keys : Reads(k)
  \/ Tick

SpecReads == Init /\ [][NextReads]_vars

\* The provider through its life: consumers exist while it is mounted; the interval
\* callback runs whenever an interval is active.
NextScope ==
  \/ scope.mounted /\ \E k \in Keys, v \in Values : SetCachedValue(k, v, NoError, FALSE)
  \/ scope.mounted /\ \E k \in Keys : ClearCacheEntry(k, FALSE)
  \/ CleanupInterval(FALSE)
  \/ ChangeTtl
  \/ Unmount
  \/ Tick

SpecScope == Init /\ [][NextScope]_vars

\* the provider with its cleanup timer running on time
NextTimer ==
  \/ \E k \in Keys, v \in Values : SetCachedValue(k, v, NoError, FALSE)
  \/ \E k \in Keys : ClearCacheEntry(k, FALSE)
  \/ TimerTick

SpecTimer == Init /\ [][NextTimer]_vars

\* the coordinator with the invocations that await pending calls
NextCoordinator ==
  \/ \E c \in Slots, assets \in Requests : FetchClaimableCapital(c, assets)
  \/ \E c \in FetchSlots : Resolve(c, FALSE)
  \/ \E c \in FetchSlots : Reject(c, FALSE)
  \/ \E c \in WaitSlots : WaiterReturns(c)
  \/ \E k \in Keys : ClearCacheEntry(k, FALSE)
  \/ ClearCache

SpecCoordinator == Init /\ [][NextCoordinator]_vars

\* the coordinator with callers that fetch again as soon as the call they awaited settled
NextRefetch ==
  \/ \E c \in Slots, assets \in Requests : FetchClaimableCapital(c, assets)
  \/ \E c \in FetchSlots : Resolve(c, FALSE)
  \/ \E c \in WaitSlots : WaiterReturns(c)
  \/ \E c \in FetchSlots, w \in WaitSlots, eager \in BOOLEAN, assets \in Requests :
       ResolveThenFetch(c, w, eager, assets)
  \/ \E c \in FetchSlots, w \in WaitSlots, eager \in BOOLEAN, assets \in Requests :
       RejectThenFetch(c, w, eager, assets)
  \/ Tick

SpecRefetch == Init /\ [][NextRefetch]_vars

\* the coordinator with callers that each request every row of the list
NextRows ==
  \/ \E c \in Slots : FetchClaimableCapital(c, Data)
  \/ \E c \in FetchSlots : Resolve(c, FALSE)
  \/ \E c \in FetchSlots : Reject(c, FALSE)
  \/ \E c \in WaitSlots : WaiterReturns(c)
  \/ \E k \in Keys : ClearCacheEntry(k, FALSE)
  \/ ClearCache
  \/ Tick

SpecRows == Init /\ [][NextRows]_vars

\* the coordinator with a service that may resolve with any list of results
NextAnyList ==
  \/ \E c \in FetchSlots, assets \in Requests : FetchClaimableCapital(c, assets)
  \/ \E c \in FetchSlots : ResolveWith(c, FALSE)
  \/ \E c \in FetchSlots : Reject(c, FALSE)
  \/ \E k \in Keys : ClearCacheEntry(k, FALSE)
  \/ Tick

SpecAnyList == Init /\ [][NextAnyList]_vars

\* the hook with a form that withdraws
NextPrimary ==
  \/ \E amount \in Amounts, k \in Keys, callback \in Callbacks :
       HandlePrimaryOperation(amount, k, callback)
  \/ \E outcome \in {"fulfilled", "rejected"}, eager \in BOOLEAN : PrimarySettled(outcome, eager)
  \/ \E c \in FetchSlots, assets \in Requests : FetchClaimableCapital(c, assets)
  \/ \E c \in FetchSlots : Resolve(c, FALSE)
  \/ \E c \in FetchSlots : Reject(c, FALSE)
  \/ Tick

SpecPrimary == Init /\ [][NextPrimary]_vars

\* the HTTP client
NextHttp ==
  \/ \E r \in ReqIds : SendRequest(r)
  \/ \E r \in ReqIds : RespondOk(r)
  \/ \E r \in ReqIds, status \in ErrorStatuses : RespondError(r, status)
  \/ \E r \in ReqIds, outcome \in {"fulfilled", "rejected"} : RefreshSettles(r, outcome)
  \/ SignIn

SpecHttp == Init /\ [][NextHttp]_vars

\* ================================================================ claims
SetValues == Values \cup {"0"}
SetErrors == ItemErrors \cup {NoError, FailedToLoad}

\* C1: a read never returns an expired entry.  Whenever the stored entry of a key has
\* now - timestamp >= ttl, getCachedValue returns null for the key and hasCachedValue is
\* false, whether or not a sweep has removed the entry; an entry that a read returns
\* has now - timestamp < ttl.
TTLExpiryOnRead ==
  \A k \in Keys :
    /\ (MapHas(cacheRef, k) /\ now - MapGet(cacheRef, k).timestamp >= ttl)
         => (getCachedValue(k) = Null /\ ~hasCachedValue(k))
    /\ getCachedValue(k) # Null => now - getCachedValue(k).timestamp < ttl

\* an expired entry is still stored (no sweep since it expired) and the read hides it
ExpiredEntryHidden ==
  \E k \in Keys :
    /\ MapHas(cacheRef, k)
    /\ now - MapGet(cacheRef, k).timestamp >= ttl
    /\ getCachedValue(k) = Null

\* C2: after every write the cache holds at most maxSize entries.
SizeBound == Len(cache) <= maxSize /\ Len(cacheRef) <= maxSize

\* the entry the eviction is to remove: the first, in the order of the Map, of the
\* entries with the least timestamp
FirstOldest(m) ==
  LET least == CHOOSE i \in 1..Len(m) :
                 /\ \A j \in 1..Len(m) : m[i].timestamp <= m[j].timestamp
                 /\ \A j \in 1..(i - 1) : m[j].timestamp # m[i].timestamp
  IN m[least].key

\* C3: a setCachedValue that evicts removes exactly one entry, the one with the least
\* timestamp among the entries present, and among entries tied on the least timestamp
\* the first in the order of the scan.
EvictionVictim ==
  [][\A k \in Keys, v \in SetValues, e \in SetErrors :
       SetCachedValue(k, v, e, FALSE) =>
         LET gone == MapKeys(cache) \ MapKeys(cache')
         IN /\ Cardinality(gone) <= 1
            /\ gone # {} => gone = {FirstOldest(cache)}]_vars

\* a setCachedValue has just evicted an entry
EvictionHappened == last.op = "set" /\ last.removed # {}

\* C9: after cleanExpiredEntries and after a run of the cleanup interval the cache holds
\* exactly the entries it held before whose age is below ttl: every expired entry is
\* gone and every valid entry is kept.
SweepCorrectness ==
  [][(CleanExpiredEntries(FALSE) \/ CleanupInterval(FALSE)) =>
       /\ Range(cache') = {entry \in Range(cache) : now - entry.timestamp < ttl}
       /\ Range(cacheRef') = Range(cache')]_vars

\* a sweep has just removed an expired entry and kept a valid one
SweepRemovedAndKept == last.op = "sweep" /\ last.removed # {} /\ cache # <<>>

\* some batched call settles in this step
SomeCallSettles == \E c \in Slots : calls[c].pc = "fetching" /\ calls'[c].pc = "idle"

\* the cache is reset in this step (clearCache is called)
CacheReset == last'.op \in {"clearAll", "setThenClearAll"}

\* C4: an invocation of fetchClaimableCapital passes to the batched call exactly the
\* assets that are neither cached nor in flight and registers each of them in flight
\* before it suspends, and a registration stays until a call settles or the cache is
\* reset; so of two invocations with overlapping assets and no settlement in between,
\* the second leaves out the keys the first is fetching.
Dedup ==
  [][/\ \A c \in Slots, assets \in Requests :
          FetchClaimableCapital(c, assets) =>
            LET issued == Range(calls'[c].need)
            IN /\ issued = {k \in Range(assets) : ~hasCachedValue(k) /\ ~hasInflightRequest(k)}
               /\ \A k \in issued : inflightRequests'[k] = c
               /\ \A d \in Slots \ {c} :
                    (calls[d].pc = "fetching" /\ \A k \in Range(calls[d].need) : inflightRequests[k] = d)
                      => issued \cap Range(calls[d].need) = {}
     /\ \A k \in Keys :
          (inflightRequests[k] # NoCall /\ inflightRequests'[k] # inflightRequests[k])
            => (SomeCallSettles \/ CacheReset)]_vars

\* a second invocation has just left out a key in flight and issued a call for the rest
SecondCallDeduped ==
  /\ last.op = "fetch"
  /\ last.deduped # {}
  /\ \A c \in FetchSlots : calls[c].pc = "fetching"
  /\ Range(calls[1].need) \cap Range(calls[2].need) = {}

\* C5: when the batched call rejects, every key of its need-set has, once the
\* invocation has returned, a cached entry with value "0" and a non-empty error, and
\* isLoading is false for it.
FailureNormalization ==
  [][\A c \in Slots :
       Reject(c, FALSE) =>
         \A k \in Range(calls[c].need) :
           /\ getCachedValue(k)' # Null
           /\ getCachedValue(k)'.value = "0"
           /\ getCachedValue(k)'.error \notin {NoError, ""}
           /\ ~isLoading(k)']_vars

\* a batched call has just rejected, and its keys hold failure entries
RejectedAndNormalized ==
  /\ last.op = "returned"
  /\ last.outcome = "rejected"
  /\ \E k \in Keys : getCachedValue(k).error = FailedToLoad /\ ~isLoading(k)

\* C6: when the batched call resolves, each result item is written as the entry of its
\* own key: a key reported without error holds its value and no error, a key reported
\* with an error holds that error, whatever was reported for the other keys.
PartialFailure ==
  [][\A c \in Slots : \A o \in [1..Len(calls[c].need) -> Outcomes] :
       (/\ calls[c].pc = "fetching"
        /\ Settled(c, "fulfilled", getClaimablePrincipalForBonds(calls[c].need, o), FALSE))
         => \A i \in 1..Len(calls[c].need) :
              /\ getCachedValueIn(cacheRef', calls[c].need[i]) # Null
              /\ o[i] \in Values =>
                   /\ getCachedValueIn(cacheRef', calls[c].need[i]).value = o[i]
                   /\ getCachedValueIn(cacheRef', calls[c].need[i]).error = NoError
              /\ o[i] \in ItemErrors => getCachedValueIn(cacheRef', calls[c].need[i]).error = o[i]]_vars

\* a batch has just resolved with a value for one key and an error for another
MixedBatchWritten ==
  /\ last.op = "returned"
  /\ last.outcome = "fulfilled"
  /\ \E k1, k2 \in Keys :
       /\ getCachedValue(k1).error \in ItemErrors
       /\ getCachedValue(k1).timestamp = now
       /\ getCachedValue(k2).value \in Values
       /\ getCachedValue(k2).error = NoError
       /\ getCachedValue(k2).timestamp = now

\* C7: when the entry and the loading flag of a key were cleared while its fetch was
\* pending and the fetch then resolves with a value for the key, the key holds that
\* value after the resolution.
ClearThenLateResolve ==
  [][\A c \in Slots : \A o \in [1..Len(calls[c].need) -> Outcomes] :
       (/\ calls[c].pc = "fetching"
        /\ Settled(c, "fulfilled", getClaimablePrincipalForBonds(calls[c].need, o), FALSE))
         => \A i \in 1..Len(calls[c].need) :
              (calls[c].need[i] \notin loadingBonds /\ o[i] \in Values)
                => getCachedValueIn(cacheRef', calls[c].need[i]).value = o[i]]_vars

\* a fetch has just resolved with a value for a key that was cleared while it was pending
ResolvedAfterClear ==
  /\ last.op = "returned"
  /\ last.outcome = "fulfilled"
  /\ \E k \in last.cleared : getCachedValue(k).value \in Values /\ getCachedValue(k).timestamp = now

\* C8: retryFailedFetches(assetIds, data), called for keys that hold a failure entry and
\* are not in flight, removes those entries and issues one batched call for exactly
\* those keys.
RetryRefetches ==
  [][\A c \in Slots, assetIds \in Requests, eager \in BOOLEAN :
       (/\ RetryFailedFetches(c, assetIds, Data, eager)
        /\ \A k \in Range(assetIds) :
             getCachedValue(k).error # NoError /\ ~hasInflightRequest(k))
         => /\ \A k \in Range(assetIds) : getCachedValue(k)' = Null
            /\ calls'[c].pc = "fetching"
            /\ calls'[c].need = assetIds]_vars

\* C10: the promise of an invocation of fetchClaimableCapital never rejects, whether
\* its batched call resolved or rejected and whether it fetched or only awaited.
FetchNeverRejects == last.op = "returned" => last.ret = "resolved"

\* an invocation whose batched call rejected has just returned, resolved
RejectionAbsorbed == last.op = "returned" /\ last.outcome = "rejected" /\ last.ret = "resolved"

\* C11: no promise the subsystem creates rejects unhandled: when the batched call
\* rejects, no reaction of setInflightRequest leaves a rejected promise without a
\* rejection handler.
NoUnhandledRejection ==
  \A i \in 1..Len(last.log) : ~(last.log[i].ev = "finally" /\ last.log[i].flag)

\* C12: a key registered in flight leaves the inflight map when its operation settles,
\* fulfilled or rejected: a key in the map is registered to an operation that is still
\* pending and has the key in its need-set, the keys of an operation that has just
\* settled are not in the map, and once no operation is pending the map is empty.
InflightCleanup ==
  /\ \A k \in Keys :
       inflightRequests[k] # NoCall =>
         /\ calls[inflightRequests[k]].pc = "fetching"
         /\ k \in Range(calls[inflightRequests[k]].need)
  /\ (last.op = "returned" /\ last.outcome # "none") =>
       \A k \in last.keys : inflightRequests[k] = NoCall
  /\ (\A c \in Slots : calls[c].pc # "fetching") => \A k \in Keys : inflightRequests[k] = NoCall

\* an operation has just rejected, nothing is pending any more and the map is empty
RejectedAndCleanedUp ==
  /\ last.op = "returned"
  /\ last.outcome = "rejected"
  /\ last.keys # {}
  /\ \A c \in Slots : calls[c].pc = "idle"
  /\ \A k \in Keys : inflightRequests[k] = NoCall

\* the batched calls among the calls of a task
FetchFnCalls(log) == SelectSeq(log, LAMBDA e : e.ev = "fetchFn")

\* C13: no batched call is started for a key that is in the inflight map: whenever an
\* invocation (of fetchClaimableCapital, directly or through retryFailedFetches) issues
\* its batched call, none of the keys of the call was in flight at that moment.
NoFetchWhileInflight ==
  [][\A c \in Slots :
       (calls[c].pc # "fetching" /\ calls'[c].pc = "fetching") =>
         /\ \A k \in Range(calls'[c].need) : inflightRequests[k] = NoCall
         /\ \A i \in 1..Len(last'.log) :
              last'.log[i].ev = "fetchFn" =>
                \A k \in Range(last'.log[i].args) : inflightRequests[k] = NoCall]_vars

\* an invocation has just issued a batched call that leaves out a requested key which
\* is, and stays, in flight
InflightKeyLeftOut ==
  /\ last.op = "fetch"
  /\ \E k \in last.deduped :
       /\ inflightRequests[k] # NoCall
       /\ \A i \in 1..Len(last.log) : k \notin Range(last.log[i].args)

\* C14: an invocation of fetchClaimableCapital whose need-set is not empty issues exactly
\* one batched call, whose argument is the requested assets that are neither validly
\* cached nor in flight; no key of the call is validly cached.
SingleBatchedCall ==
  [][\A c \in Slots, assets \in Requests :
       FetchClaimableCapital(c, assets) =>
         LET needFetch == SelectSeq(assets, LAMBDA k : ~hasCachedValue(k) /\ ~hasInflightRequest(k))
             issued    == FetchFnCalls(last'.log)
         IN /\ needFetch # <<>> => (Len(issued) = 1 /\ issued[1].args = needFetch)
            /\ \A i \in 1..Len(issued) : \A k \in Range(issued[i].args) : ~hasCachedValue(k)]_vars

\* an invocation has just issued one batched call for two keys
OneCallForTwoKeys ==
  /\ last.op = "fetch"
  /\ Len(FetchFnCalls(last.log)) = 1
  /\ Len(FetchFnCalls(last.log)[1].args) = 2

\* C15: an invocation of fetchClaimableCapital all of whose assets are validly cached or
\* in flight issues no batched call and changes nothing in the store.  With none of them
\* in flight it returns at once; otherwise it awaits the operations registered for the
\* assets in flight, an operation leaves the set it awaits only by settling, and it
\* returns, resolved, only when that set is empty, whatever the outcomes were.
EmptyNeedSet ==
  [][/\ \A c \in Slots, assets \in Requests :
          (/\ FetchClaimableCapital(c, assets)
           /\ \A k \in Range(assets) : hasCachedValue(k) \/ hasInflightRequest(k))
            => LET pending == {inflightRequests[k] : k \in {a \in Range(assets) : hasInflightRequest(a)}}
               IN /\ FetchFnCalls(last'.log) = <<>>
                  /\ UNCHANGED <<cache, cacheRef, loadingBonds, inflightRequests>>
                  /\ pending = {} =>
                       (calls'[c].pc = "idle" /\ last'.op = "returned" /\ last'.ret = "resolved")
                  /\ pending # {} =>
                       (calls'[c].pc = "waiting" /\ calls'[c].waitFor = pending)
     /\ \A c \in Slots : \A d \in calls[c].waitFor :
          d \notin calls'[c].waitFor => (calls[d].pc = "fetching" /\ calls'[d].pc = "idle")
     /\ \A c \in Slots :
          (calls[c].pc = "waiting" /\ calls'[c].pc # "waiting")
            => (calls[c].waitFor = {} /\ last'.op = "returned" /\ last'.ret = "resolved")]_vars

\* an invocation that awaited two operations, one fulfilled and one rejected, has returned
AwaitedBothOutcomes ==
  /\ last.op = "returned"
  /\ last.outcome = "none"
  /\ last.ret = "resolved"
  /\ last.awaited = {"fulfilled", "rejected"}

\* C16: an invocation that issues a batched call calls setLoadingState(key, true) for
\* every key of its need-set before it registers the key in flight, and makes no other
\* loading call; when the batched call settles, fulfilled or rejected, it calls
\* setLoadingState(key, false) for every key of the need-set, after the settlement; the
\* coordinator clears a loading flag at no other moment.
LoadingProtocol ==
  [][/\ \A c \in FetchSlots :
          (calls[c].pc # "fetching" /\ calls'[c].pc = "fetching" /\ last'.op = "fetch") =>
            /\ \A k \in Range(calls'[c].need) :
                 /\ k \in loadingBonds'
                 /\ \A j \in 1..Len(last'.log) :
                      (last'.log[j].ev = "inflight" /\ last'.log[j].key = k) =>
                        \E i \in 1..(j - 1) : last'.log[i] = Event("loading", k, TRUE, <<>>)
                 /\ \E j \in 1..Len(last'.log) :
                      last'.log[j].ev = "inflight" /\ last'.log[j].key = k
            /\ \A i \in 1..Len(last'.log) :
                 last'.log[i].ev = "loading" => last'.log[i].flag
     /\ \A c \in FetchSlots :
          (calls[c].pc = "fetching" /\ calls'[c].pc = "idle") =>
            \A k \in Range(calls[c].need) :
              /\ k \notin loadingBonds'
              /\ \E i, j \in 1..Len(last'.log) :
                   /\ i < j
                   /\ last'.log[i].ev = "finally" /\ last'.log[i].key = k
                   /\ last'.log[j] = Event("loading", k, FALSE, <<>>)
     /\ \A i \in 1..Len(last'.log) :
          (last'.log[i].ev = "loading" /\ ~last'.log[i].flag) => SomeCallSettles]_vars

\* a batched call for two keys has just rejected and the loading flag of each was cleared
LoadingClearedAfterFailure ==
  /\ last.op = "returned"
  /\ last.outcome = "rejected"
  /\ Cardinality(last.keys) = 2
  /\ \A k \in last.keys :
       /\ \E i \in 1..Len(last.log) : last.log[i] = Event("loading", k, FALSE, <<>>)
       /\ ~isLoading(k)

\* C17: clearCacheEntry(key) removes the entry and the loading flag of the key and
\* nothing else: the entries and the loading flags of the other keys stay as they are,
\* the inflight map is unchanged and every pending invocation stays pending.
ClearFrame ==
  [][\A k \in Keys :
       ClearCacheEntry(k, FALSE) =>
         /\ cache' = SelectSeq(cache, LAMBDA entry : entry.key # k)
         /\ cacheRef' = cache'
         /\ getCachedValueIn(cacheRef', k) = Null
         /\ \A j \in Keys \ {k} : getCachedValueIn(cacheRef', j) = getCachedValue(j)
         /\ loadingBonds' = loadingBonds \ {k}
         /\ inflightRequests' = inflightRequests
         /\ calls' = calls]_vars

\* the stored entry of a key in flight has just been cleared: the key is still in
\* flight, its operation still pending, and the entry of another key is still stored
ClearedWhileInflight ==
  /\ last.op = "clear"
  /\ \E k \in last.keys :
       /\ k \in last.removed
       /\ inflightRequests[k] # NoCall
       /\ calls[inflightRequests[k]].pc = "fetching"
       /\ \E j \in Keys \ {k} : MapHas(cache, j)

MisuseFault ==
  last.op = "hook" =>
    /\ last.outcome = "outside" => last.ret = "throws"
    /\ last.outcome = "inside" => last.ret = ContextValue

\* the hook has just been called outside a provider, and threw
HookThrewOutside == last.op = "hook" /\ last.outcome = "outside" /\ last.ret = "throws"

\* C20: has(key) is equivalent to get(key) being present: in every state and for every
\* key, hasCachedValue(key) is true exactly when getCachedValue(key) returns an entry,
\* which is then the entry stored under that key.
HasIffGetPresent ==
  \A k \in Keys :
    hasCachedValue(k) <=>
      /\ getCachedValue(k).key = k
      /\ MapHas(cacheRef, k)
      /\ getCachedValue(k) = MapGet(cacheRef, k)

\* one key is stored and readable, another is stored but expired: has tells them apart
HasSplitsStoredKeys ==
  \E k1, k2 \in Keys :
    /\ MapHas(cacheRef, k1) /\ hasCachedValue(k1)
    /\ MapHas(cacheRef, k2) /\ ~hasCachedValue(k2)

\* C21: set is a synchronous write with a fresh timestamp: a getCachedValue made right
\* after setCachedValue(key, value, error) returned, in the same task, gives the entry
\* {value, timestamp = now, error}, whether the key was absent or present; and a read
\* made right after clearCacheEntry(key) in the same task finds the key absent.
SetIsSynchronous ==
  [][/\ \A k \in Keys, v \in SetValues, e \in SetErrors, eager \in BOOLEAN :
          SetThenGet(k, v, e, eager) => last'.read = Entry(k, v, now, e)
     /\ \A k \in Keys, eager \in BOOLEAN :
          ClearEntryThenGet(k, eager) => last'.read = Null]_vars

\* C22: no perpetual loading: if every batched call that is issued settles, then for
\* every key in the need-set of a pending call there comes a state in which the
\* invocation has returned, isLoading(key) is false and an entry for the key has been
\* written (at the instant of the settlement).
NoPerpetualLoading ==
  \A k \in Keys :
    (\E c \in FetchSlots : calls[c].pc = "fetching" /\ k \in Range(calls[c].need))
      ~> (/\ last.op = "returned" /\ k \in last.keys
          /\ ~isLoading(k)
          /\ MapHas(cache, k) /\ MapGet(cache, k).timestamp = now)

\* a batched call for both keys has been rejected: neither key is loading and both hold
\* a failure entry
HardFailureResolvedBothKeys ==
  /\ last.op = "returned" /\ last.outcome = "rejected" /\ last.keys = Keys
  /\ \A k \in Keys : ~isLoading(k) /\ MapHas(cache, k) /\ MapGet(cache, k).error = FailedToLoad

\* C23: shared handle.  The operation of an invocation that issues a batched call is
\* registered, before the invocation first suspends, as the inflight handle of every
\* key of its need-set, so getInflightRequest gives the same handle for all of them;
\* and an invocation that requests a key in flight issues no call and awaits the handle
\* of that key.
SharedHandle ==
  [][\A c \in Slots, assets \in Requests :
       FetchClaimableCapital(c, assets) =>
         /\ calls'[c].pc = "fetching" =>
              \A k \in Range(calls'[c].need) : inflightRequests'[k] = c
         /\ \A k \in Range(assets) :
              hasInflightRequest(k) =>
                /\ FetchFnCalls(last'.log) = <<>>
                /\ getInflightRequest(k) \in calls'[c].waitFor]_vars

\* C23, amended: the registration is as stated; an invocation that requests a key in
\* flight never includes that key in a batched call, and it awaits the handle of the key
\* when every asset it requests is validly cached or in flight (then it issues no call).
\* When it also requests an asset that needs fetching, it issues a call for the assets
\* that need fetching and awaits that call only.
SharedHandleWhenNothingToFetch ==
  [][\A c \in Slots, assets \in Requests :
       FetchClaimableCapital(c, assets) =>
         /\ calls'[c].pc = "fetching" =>
              \A k \in Range(calls'[c].need) : inflightRequests'[k] = c
         /\ \A k \in Range(assets) :
              hasInflightRequest(k) =>
                /\ \A i \in 1..Len(last'.log) :
                     last'.log[i].ev = "fetchFn" => k \notin Range(last'.log[i].args)
                /\ (\A j \in Range(assets) : hasCachedValue(j) \/ hasInflightRequest(j)) =>
                     /\ FetchFnCalls(last'.log) = <<>>
                     /\ calls'[c].pc = "waiting"
                     /\ getInflightRequest(k) \in calls'[c].waitFor]_vars

\* one operation is the handle of both keys, and an invocation that requested keys in
\* flight has just suspended on that handle
WaiterSharesHandle ==
  \E w \in WaitSlots, d \in FetchSlots :
    /\ last.op = "wait"
    /\ calls[w].pc = "waiting" /\ calls[w].waitFor = {d}
    /\ calls[d].pc = "fetching" /\ Len(calls[d].need) = 2
    /\ \A k \in Keys : getInflightRequest(k) = d

\* C24: last-settled-wins.  Whenever a batched call settles, the entry stored for each of
\* its keys is the result of that settlement, stamped with the instant of the settlement,
\* whatever entry the key held and whether another call covering the key is still
\* pending or has settled before; so of two calls covering a key, the one that settles
\* last determines the entry, whichever was issued first.
LastSettledWins ==
  [][\A c \in FetchSlots :
       calls[c].pc = "fetching" =>
         /\ \A o \in [1..Len(calls[c].need) -> Outcomes] :
              Settled(c, "fulfilled", getClaimablePrincipalForBonds(calls[c].need, o), FALSE) =>
                \A i \in 1..Len(calls[c].need) :
                  LET r == FetchResult(calls[c].need[i], o[i])
                  IN /\ MapHas(cache', r.bondId)
                     /\ MapGet(cache', r.bondId) = Entry(r.bondId, r.claimableAmount, now, r.error)
                     /\ getCachedValueIn(cacheRef', r.bondId) = MapGet(cache', r.bondId)
         /\ Settled(c, "rejected", <<>>, FALSE) =>
              \A k \in Range(calls[c].need) :
                /\ MapHas(cache', k)
                /\ MapGet(cache', k) = Entry(k, "0", now, FailedToLoad)
                /\ getCachedValueIn(cacheRef', k) = MapGet(cache', k)]_vars

\* two calls covered the same key at once; one of them has just settled and written the
\* entry of the key, the other is still pending and will write it again
FirstOfTwoSettled ==
  \E k \in Keys, d \in FetchSlots :
    /\ last.op = "returned" /\ last.outcome # "none" /\ k \in last.keys
    /\ hasCachedValue(k)
    /\ calls[d].pc = "fetching" /\ k \in Range(calls[d].need)

\* C25: reset does not cancel.  clearCache() leaves every pending invocation pending, and
\* when a call settles whose inflight registration is gone (a reset dropped it while the
\* call was pending), its result is written all the same: each of its keys has again a
\* valid entry, stamped with the instant of the settlement.
ResetDoesNotCancel ==
  [][/\ CacheReset => (calls' = calls /\ cache' = <<>>)
     /\ \A c \in FetchSlots :
          (/\ calls[c].pc = "fetching" /\ calls'[c].pc = "idle"
           /\ \E k \in Range(calls[c].need) : getInflightRequest(k) # c)
            => \A k \in Range(calls[c].need) :
                 /\ MapHas(cache', k)
                 /\ MapGet(cache', k).timestamp = now
                 /\ getCachedValueIn(cacheRef', k) = MapGet(cache', k)]_vars

\* the cache has just been reset while a call was pending: the store is empty, the
\* registration of the call is gone and the call is still pending
PendingSurvivedReset ==
  /\ last.op = "clearAll"
  /\ cache = <<>>
  /\ \E c \in FetchSlots :
       /\ calls[c].pc = "fetching"
       /\ \A k \in Range(calls[c].need) : ~hasInflightRequest(k)

SweepQueue(op, eager) == DispatchCache(Store, Update(op, NoKey, "", NoError), eager, now).cq

\* C27: a sweep that finds no expired entry, be it a run of the cleanup interval or a
\* call of cleanExpiredEntries, publishes nothing: the cache state stays the same Map
\* object, so no consumer is refreshed.
NoOpSweepPublishesNothing ==
  [][\A eager \in BOOLEAN :
       /\ (CleanupInterval(eager) /\ cache' = cache)
            => ~Publishes(cache, SweepQueue("interval", eager), now)
       /\ (CleanExpiredEntries(eager) /\ cache' = cache)
            => ~Publishes(cache, SweepQueue("clean", eager), now)]_vars

\* C28: sweep timer lifecycle.  A mounted provider has exactly one active cleanup
\* interval, also after its ttl changed; unmounting clears it, so that after the
\* teardown no interval is active and no sweep changes the store any more; and the
\* store changes only in a step of a consumer's operation or of the interval callback.
SweepTimerLifecycle ==
  [][/\ Cardinality(scope'.timers) <= 1
     /\ scope'.mounted => scope'.timers = {scope'.current}
     /\ ~scope'.mounted => scope'.timers = {}
     /\ ~scope.mounted => (cache' = cache /\ cacheRef' = cacheRef)
     /\ (cache' # cache \/ cacheRef' # cacheRef) =>
          \/ last'.op \in {"set", "clear"}
          \/ last'.op = "sweep" /\ scope.timers # {}]_vars

\* the provider was unmounted after its ttl had changed, time has passed and an expired
\* entry is still stored: no interval is left to sweep it
UnmountedAfterTtlChange ==
  /\ ~scope.mounted /\ scope.nextId > 2 /\ scope.timers = {}
  /\ \E k \in Keys : MapHas(cache, k) /\ ~hasCachedValue(k)

AtMostOnePendingPerKey ==
  \A c, d \in FetchSlots :
    (c # d /\ calls[c].pc = "fetching" /\ calls[d].pc = "fetching")
      => Range(calls[c].need) \cap Range(calls[d].need) = {}

\* C31: in-flight marker ownership.  The marker of a key leaves the inflight map, or
\* changes, only in the step in which the operation registered for the key settles, or
\* in a reset of the cache; the settlement of an older operation for the key never
\* removes the marker that a later operation registered.
MarkerOwnership ==
  [][\A k \in Keys :
       (hasInflightRequest(k) /\ inflightRequests'[k] # getInflightRequest(k))
         => (CacheReset \/ Settles(getInflightRequest(k)))]_vars

\* the keys that the batched calls of a task were issued for
FetchedKeys(log) == UNION {Range(FetchFnCalls(log)[i].args) : i \in 1..Len(FetchFnCalls(log))}

\* C32: cache hit across calls.  No invocation passes to the service a key that holds a
\* valid entry when the task of the invocation starts and is not removed in it; and an invocation made right after a call
\* covering the key has settled, by the caller of an invocation that awaited that call,
\* does not pass the key to the service when the result written for the key is stored
\* (it was neither evicted nor cleared).
CacheHitAcrossCalls ==
  [][\A k \in Keys :
       /\ (/\ MapHas(cache, k) /\ isEntryValid(MapGet(cache, k), now)
           /\ MapHas(cache', k) /\ last'.op \notin {"none", "returnedThenFetch"})
            => k \notin FetchedKeys(last'.log)
       /\ (last'.op = "returnedThenFetch" /\ k \in last'.keys /\ MapHas(cache', k))
            => k \notin FetchedKeys(last'.log)]_vars

\* an invocation of fetchClaimableCapital returns in this step
Returns(c) == calls[c].pc # "idle" /\ calls'[c].pc = "idle"

\* C33: return implies resolved, for the invocations that issue a call: when the promise
\* of an invocation that requested every row resolves after its own batched call, no row
\* is in flight, also when the invocation fetched some rows itself while others were
\* pending in the call of another invocation.
ReturnImpliesResolved ==
  [][\A c \in FetchSlots :
       Returns(c) => \A k \in Range(Data) : inflightRequests'[k] = NoCall]_vars

\* C33, amended: when the promise of an invocation resolves, no key of its own batched
\* call is in flight; an invocation that issued no call resolves only when every
\* operation it awaited has settled, and an operation leaves the set it awaits only in
\* the step in which it settles.  The keys that were pending in the call of another
\* invocation when this one issued its own call are not awaited.
ReturnImpliesOwnCallSettled ==
  [][\A c \in Slots :
       /\ Returns(c) =>
            /\ \A k \in Range(calls[c].need) : inflightRequests'[k] = NoCall
            /\ calls[c].waitFor = {}
            /\ calls[c].pc = "waiting" => calls[c].awaited # {}
       /\ \A d \in calls[c].waitFor \ calls'[c].waitFor :
            calls[d].pc = "fetching" /\ calls'[d].pc = "idle"]_vars

\* an invocation that requested every row has just returned from its own batched call
\* while a row it requested is still in flight in the call of another invocation
MixedCallReturned ==
  /\ last.op = "returned" /\ last.outcome # "none"
  /\ \E k \in Range(Data) \ last.keys, d \in FetchSlots :
       /\ getInflightRequest(k) = d
       /\ calls[d].pc = "fetching" /\ k \in Range(calls[d].need)

\* the bonds that a list of results names
Named(results) == {results[i].bondId : i \in 1..Len(results)}

\* C34: every need-set key is written on success.  After a batched call resolved, every
\* key of its need-set has an entry written at the settlement, whatever list the call
\* resolved with: a list that omits a requested key or names a key not requested
\* included.
NeedSetWrittenOnSuccess ==
  [][\A c \in FetchSlots, results \in ResultLists :
       (calls[c].pc = "fetching" /\ Settled(c, "fulfilled", results, FALSE)) =>
         \A k \in Range(calls[c].need) :
           MapHas(cache', k) /\ MapGet(cache', k).timestamp = now]_vars

\* C34, amended: on success the continuation writes the keys that the list names, and
\* only those.  Every item of the list is stored as given, stamped with the instant of
\* the settlement, whether or not its key was requested; a key of the need-set that the
\* list omits gets no entry (if it is stored afterwards, it is with the entry it held
\* before); so every key of the need-set is written when the list names each of them,
\* as the list of getClaimablePrincipalForBonds does.
ListedKeysWrittenOnSuccess ==
  [][\A c \in FetchSlots, results \in ResultLists :
       (calls[c].pc = "fetching" /\ Settled(c, "fulfilled", results, FALSE)) =>
         /\ \A i \in 1..Len(results) :
              /\ MapHas(cache', results[i].bondId)
              /\ MapGet(cache', results[i].bondId) =
                   Entry(results[i].bondId, results[i].claimableAmount, now, results[i].error)
         /\ \A k \in Range(calls[c].need) \ Named(results) :
              MapHas(cache', k) => (MapHas(cache, k) /\ MapGet(cache', k) = MapGet(cache, k))
         /\ Range(calls[c].need) \subseteq Named(results) =>
              \A k \in Range(calls[c].need) :
                MapHas(cache', k) /\ MapGet(cache', k).timestamp = now]_vars

\* a batched call for both keys has resolved with a list that omitted one of them: the
\* omitted key has no entry, is not loading and is not in flight, and a key that was
\* named is stored
ResolvedWithoutRequestedKey ==
  /\ last.op = "returned" /\ last.outcome = "fulfilled" /\ last.keys = Keys
  /\ \E k, j \in Keys :
       /\ ~MapHas(cache, k) /\ ~isLoading(k) /\ ~hasInflightRequest(k)
       /\ MapHas(cache, j) /\ MapGet(cache, j).timestamp = now

\* C35: replacement does not evict.  A setCachedValue on a key that is stored, made when
\* the cache holds maxSize entries, replaces the entry of the key and removes no other
\* key: the stored keys are the same before and after.
ReplacementDoesNotEvict ==
  [][\A k \in Keys, v \in SetValues, e \in SetErrors :
       (SetCachedValue(k, v, e, FALSE) /\ MapHas(cache, k) /\ Len(cache) = maxSize)
         => MapKeys(cache') = MapKeys(cache)]_vars

\* C36: loading reflects pending work.  A key is loading from the step in which a batched
\* call including it is issued, and while that call is pending its flag goes off only in
\* a step of clearCacheEntry for the key or of clearCache; in particular the settlement
\* of another, earlier call for the key does not turn the flag off.
LoadingReflectsPending ==
  [][\A c \in FetchSlots, k \in Keys :
       /\ (calls[c].pc = "idle" /\ calls'[c].pc = "fetching" /\ k \in Range(calls'[c].need))
            => isLoading(k)'
       /\ (/\ calls[c].pc = "fetching" /\ k \in Range(calls[c].need) /\ calls'[c] = calls[c]
           /\ isLoading(k) /\ ~isLoading(k)')
            => \/ CacheReset
               \/ last'.op = "clear" /\ k \in last'.keys]_vars

Refreshing(h) == {r \in ReqIds : h.reqs[r].pc = "refreshing"}

QueuedRequestsSettle ==
  [][\A r \in ReqIds, outcome \in {"fulfilled", "rejected"} :
       RefreshSettles(r, outcome) =>
         /\ http'.refreshSubscribers = <<>>
         /\ \A q \in ReqIds : http'.reqs[q].pc # "queued"]_vars

====
